---- MODULE Spec2Model ----
(***************************************************************************)
(* The BOQ repository of internal/adapters/postgres/boq_repo.go:           *)
(* GetBoqWithProject, AddBOQJob and DeleteBOQJob, each one database        *)
(* transaction (read committed) ended by the deferred tx.Rollback() or by  *)
(* tx.Commit().  The committed tables are the shared state; every caller   *)
(* has a program counter, its transaction's uncommitted writes and its     *)
(* local variables.  Every database call may fail (connection loss,        *)
(* cancelled context): the "fault" branch of each step.                    *)
(***************************************************************************)
EXTENDS Integers, Sequences, FiniteSets, Bags, TLC

VARIABLES
    boq,                 \* committed table boq: a set of rows (boq_id is the key)
    boq_job,             \* committed table boq_job: a bag of rows
    material_price_log,  \* committed table material_price_log: a bag of rows
    nextBoqId,           \* the next boq_id the store generates (never rolled back)
    pc,                  \* pc[t]: where caller t is in its call
    op,                  \* op[t]: the operation and arguments of t's call
    txw,                 \* txw[t]: t's transaction: whether it is open, and its
                         \*         uncommitted writes
    local,               \* local[t]: the call's local variables
    result,              \* result[t]: what t's last call returned
    pre,                 \* pre[t]: committed boq_job and material_price_log, and the
                         \*         status of the call's BOQ, when t's call began
    prev,                \* prev[t]: t's previous call, when it returned success
    budget               \* calls that may still be started

vars == <<boq, boq_job, material_price_log, nextBoqId, pc, op, txw, local,
          result, pre, prev, budget>>

tables == <<boq, boq_job, material_price_log>>

(* ------------------------------ bounds -------------------------------- *)

\* calls started in a run of concurrent callers
MaxCalls == 2
\* calls started in a run of one caller
MaxSeqCalls == 4
\* boq rows the store may generate an id for
MaxCreate == 2

(* ------------------------- the fixed tables --------------------------- *)

Procs == {"t1", "t2"}

\* a nullable column holds <<>> (NULL) or <<v>>
NULL == <<>>

ProjectTable == {"p1", "p2", "p3"}

JobTable ==
    { [job_id |-> "j1", name |-> "wall",  description |-> NULL,       unit |-> "m2"],
      [job_id |-> "j2", name |-> "floor", description |-> <<"tile">>, unit |-> "m2"] }

JobIDs == {j.job_id : j \in JobTable}

\* job_material in the order a scan returns it
JobMaterialTable ==
    << [job_id |-> "j1", material_id |-> "m1", quantity |-> 2],
       [job_id |-> "j1", material_id |-> "m2", quantity |-> 3],
       [job_id |-> "j2", material_id |-> "m1", quantity |-> 1] >>

ReqQuantities == {4}
ReqLaborCosts == {10}

NonDraftStatuses == {"approved", "confirmed"}

InitBoq ==
    { [boq_id |-> 1, project_id |-> "p1", status |-> "draft",
       selling_general_cost |-> NULL],
      [boq_id |-> 2, project_id |-> "p2", status |-> "draft",
       selling_general_cost |-> <<5>>] }

FirstFreeId == Cardinality(InitBoq) + 1

(* ------------------------------ helpers ------------------------------- *)

\* the rows of bag B that are in the set S
BagRestrict(B, S) == [r \in DOMAIN B \cap S |-> B[r]]

\* the rows of a boq_job bag whose (boq_id, job_id) is not in the set `keys`
WithoutKeys(B, keys) ==
    BagRestrict(B, {r \in DOMAIN B :
                      [boq_id |-> r.boq_id, job_id |-> r.job_id] \notin keys})

SameKey(row, b, j) == row.boq_id = b /\ row.job_id = j

\* no open transaction
NoWrites == [open |-> FALSE, boq |-> {}, job_ins |-> EmptyBag, job_del |-> {},
             log_ins |-> EmptyBag]

\* the transaction BeginTxx returns
NewTx == [NoWrites EXCEPT !.open = TRUE]

NoResp == [ID |-> 0, ProjectID |-> "", Status |-> "", SellingGeneralCost |-> 0,
           Jobs |-> EmptyBag]

NoLocal == [response |-> NoResp, created |-> FALSE, materials |-> <<>>]

NoOp == [name |-> "none"]

Ok(resp) == [err |-> "", cause |-> "", resp |-> resp]

Err(msg, cause) == [err |-> msg, cause |-> cause, resp |-> NoResp]

NoResult == Err("none", "")

StatusOf(boqID) ==
    IF \E r \in boq : r.boq_id = boqID
    THEN (CHOOSE r \in boq : r.boq_id = boqID).status
    ELSE "none"

Snapshot(call) ==
    [boq_job |-> boq_job, log |-> material_price_log,
     status |-> IF call.name = "get" THEN "" ELSE StatusOf(call.boq)]

NoSnapshot == [boq_job |-> EmptyBag, log |-> EmptyBag, status |-> ""]

NoPrev == [op |-> NoOp, ID |-> 0]

LastCall(t) ==
    IF pc[t] = "done" /\ result[t].err = ""
    THEN [op |-> op[t], ID |-> result[t].resp.ID]
    ELSE NoPrev

\* sql.NullFloat64 / sql.NullString after Scan: the zero value when the column is NULL
ScanNullFloat64(col) ==
    IF col = NULL THEN [Valid |-> FALSE, Float64 |-> 0]
                  ELSE [Valid |-> TRUE, Float64 |-> col[1]]

ScanNullString(col) ==
    IF col = NULL THEN [Valid |-> FALSE, String |-> ""]
                  ELSE [Valid |-> TRUE, String |-> col[1]]

(* ------------------- what a transaction reads --------------------------*)

\* read committed: the committed rows and the transaction's own writes
VisBoq(t) == boq \cup txw[t].boq

VisBoqJob(t) ==
    WithoutKeys(boq_job, txw[t].job_del) (+) txw[t].job_ins

VisLog(t) == material_price_log (+) txw[t].log_ins

(* ------------------- the end of a transaction ------------------------- *)

TxRollback(t) ==
    /\ txw' = [txw EXCEPT ![t] = NoWrites]
    /\ UNCHANGED tables

TxCommit(t) ==
    /\ boq' = boq \cup txw[t].boq
    /\ boq_job' = WithoutKeys(boq_job, txw[t].job_del) (+) txw[t].job_ins
    /\ material_price_log' = material_price_log (+) txw[t].log_ins
    /\ txw' = [txw EXCEPT ![t] = NoWrites]

\* mutant: the error return leaves the transaction as it is (no deferred rollback)
Fail_NoRollback(t, msg, cause) ==
    /\ pc' = [pc EXCEPT ![t] = "done"]
    /\ result' = [result EXCEPT ![t] = Err(msg, cause)]
    /\ UNCHANGED <<tables, txw, nextBoqId, op, local, pre, prev, budget>>

\* an error return: the deferred tx.Rollback() ends the transaction
Fail(t, msg, cause) ==
    /\ pc' = [pc EXCEPT ![t] = "done"]
    /\ result' = [result EXCEPT ![t] = Err(msg, cause)]
    /\ TxRollback(t)
    /\ UNCHANGED <<nextBoqId, op, local, pre, prev, budget>>

\* BeginTxx of a new call
Begin(t, call) ==
    /\ pc[t] \in {"idle", "done"}
    /\ budget > 0
    /\ budget' = budget - 1
    /\ op' = [op EXCEPT ![t] = call]
    /\ local' = [local EXCEPT ![t] = NoLocal]
    /\ UNCHANGED <<tables, nextBoqId>>

\* BeginTxx succeeded: the call goes on at `first`
Started(t, first) ==
    /\ pc' = [pc EXCEPT ![t] = first]
    /\ result' = [result EXCEPT ![t] = NoResult]
    /\ txw' = [txw EXCEPT ![t] = NewTx]

\* BeginTxx failed: the call returns, there is no transaction to end
NotStarted(t) ==
    /\ pc' = [pc EXCEPT ![t] = "done"]
    /\ result' = [result EXCEPT ![t] = Err("failed to begin transaction", "fault")]
    /\ UNCHANGED txw

(* ------------------------- GetBoqWithProject -------------------------- *)

ResponseOf(row) ==
    [ID |-> row.boq_id, ProjectID |-> row.project_id, Status |-> row.status,
     SellingGeneralCost |-> ScanNullFloat64(row.selling_general_cost).Float64,
     Jobs |-> EmptyBag]

JobResponseOf(job) ==
    [JobID |-> job.job_id, Name |-> job.name,
     Description |-> ScanNullString(job.description).String, Unit |-> job.unit]

\* mutant: the query has lost its WHERE bj.boq_id = $1
JobsQuery_AnyBoq(t, id) ==
    SetToBag({j \in JobTable :
                \E r \in BagToSet(VisBoqJob(t)) : r.job_id = j.job_id})

\* SELECT DISTINCT j.* FROM job j JOIN boq_job bj ON j.job_id = bj.job_id
\* WHERE bj.boq_id = $1  (the order of the rows is not modelled: a bag)
JobsQuery(t, id) ==
    SetToBag({j \in JobTable :
                \E r \in BagToSet(VisBoqJob(t)) : r.boq_id = id /\ r.job_id = j.job_id})

\* the loop that appends one JobResponse per job row
JobsForResponse(jobs) ==
    [x \in {JobResponseOf(j) : j \in DOMAIN jobs} |->
        LET src == CHOOSE j \in DOMAIN jobs : JobResponseOf(j) = x IN jobs[src]]

CallGetBoqWithProject(t, projectID) ==
    /\ Begin(t, [name |-> "get", project |-> projectID])
    /\ \/ Started(t, "get_select")
       \/ NotStarted(t)

\* mutant: the successful return commits
GetBoqEnd_Commits(t) == TxCommit(t)

\* the deferred tx.Rollback() of a successful return
GetBoqEnd(t) == TxRollback(t)

GetSelectBoq(t) ==
    /\ pc[t] = "get_select"
    /\ LET rows == {r \in VisBoq(t) : r.project_id = op[t].project
                                      /\ r.project_id \in ProjectTable}
       IN  \/ Fail(t, "failed to check BOQ existence", "fault")
           \/ /\ rows = {}
              /\ pc' = [pc EXCEPT ![t] = "get_create"]
              /\ UNCHANGED <<tables, nextBoqId, op, txw, local, result, pre, prev, budget>>
           \/ \E r \in rows :
                /\ local' = [local EXCEPT ![t].response = ResponseOf(r)]
                /\ pc' = [pc EXCEPT ![t] = "get_jobs"]
                /\ UNCHANGED <<tables, nextBoqId, op, txw, result, pre, prev, budget>>

GetCreateBoq(t) ==
    /\ pc[t] = "get_create"
    /\ \/ Fail(t, "failed to create BOQ", "fault")
       \/ /\ nextBoqId < FirstFreeId + MaxCreate
          /\ LET row == [boq_id |-> nextBoqId, project_id |-> op[t].project,
                         status |-> "draft", selling_general_cost |-> NULL]
             IN  /\ txw' = [txw EXCEPT ![t].boq = @ \cup {row}]
                 /\ local' = [local EXCEPT ![t].response = ResponseOf(row),
                                           ![t].created = TRUE]
          /\ nextBoqId' = nextBoqId + 1
          /\ pc' = [pc EXCEPT ![t] = "get_jobs"]
          /\ UNCHANGED <<tables, op, result, pre, prev, budget>>

GetSelectJobs(t) ==
    /\ pc[t] = "get_jobs"
    /\ \/ Fail(t, "failed to get jobs", "fault")
       \/ /\ result' = [result EXCEPT ![t] =
                Ok([local[t].response EXCEPT
                      !.Jobs = JobsForResponse(JobsQuery(t, local[t].response.ID))])]
          /\ pc' = [pc EXCEPT ![t] = "done"]
          /\ GetBoqEnd(t)
          /\ UNCHANGED <<nextBoqId, op, local, pre, prev, budget>>

(* ----------------------------- AddBOQJob ------------------------------ *)

\* SELECT status FROM boq WHERE boq_id = $1
StatusRows(t, boqID) == {r \in VisBoq(t) : r.boq_id = boqID}

\* another transaction holds an uncommitted insert or delete of the pair: the
\* statement waits for that transaction to end
PairLocked(t, b, j) ==
    \E u \in Procs \ {t} :
        \/ \E r \in BagToSet(txw[u].job_ins) : SameKey(r, b, j)
        \/ [boq_id |-> b, job_id |-> j] \in txw[u].job_del

\* UNIQUE (boq_id, job_id) on boq_job
BoqJobUniqueViolation(t, b, j) ==
    \E r \in BagToSet(VisBoqJob(t)) : SameKey(r, b, j)

\* SELECT material_id, quantity FROM job_material WHERE job_id = $1
MaterialsOf(jobID) ==
    LET rows == SelectSeq(JobMaterialTable, LAMBDA r : r.job_id = jobID)
    IN  [i \in 1..Len(rows) |->
            [MaterialID |-> rows[i].material_id, Quantity |-> rows[i].quantity]]

\* SELECT EXISTS(SELECT 1 FROM material_price_log WHERE boq_id = $1
\*               AND material_id = $2 AND job_id = $3)
\* mutant: the existence check always answers no
PriceLogExists_Never(t, b, m, j) == FALSE

PriceLogExists(t, b, m, j) ==
    \E r \in BagToSet(VisLog(t)) :
        r.boq_id = b /\ r.material_id = m /\ r.job_id = j

\* the next iteration of the loop over the materials, or the commit after it
\* mutant: the loop ends after its first material
AfterMaterial_Break(rest) == "add_commit"

AfterMaterial(rest) == IF rest = <<>> THEN "add_commit" ELSE "add_exists"

CallAddBOQJob(t, boqID, jobID, quantity, laborCost) ==
    /\ Begin(t, [name |-> "add", boq |-> boqID, job |-> jobID,
                 quantity |-> quantity, labor_cost |-> laborCost])
    /\ \/ Started(t, "add_status")
       \/ NotStarted(t)

\* mutant: only the status "approved" is refused
AddCheckStatus_ApprovedOnly(t) ==
    /\ pc[t] = "add_status"
    /\ LET rows == StatusRows(t, op[t].boq)
       IN  \/ Fail(t, "failed to get BOQ status", "fault")
           \/ /\ rows = {}
              /\ Fail(t, "boq not found", "")
           \/ \E r \in rows :
                IF r.status = "approved"
                THEN Fail(t, "can only add jobs to BOQ in draft status", "")
                ELSE /\ pc' = [pc EXCEPT ![t] = "add_insert"]
                     /\ UNCHANGED <<tables, nextBoqId, op, txw, local, result,
                                    pre, prev, budget>>

AddCheckStatus(t) ==
    /\ pc[t] = "add_status"
    /\ LET rows == StatusRows(t, op[t].boq)
       IN  \/ Fail(t, "failed to get BOQ status", "fault")
           \/ /\ rows = {}
              /\ Fail(t, "boq not found", "")
           \/ \E r \in rows :
                IF r.status # "draft"
                THEN Fail(t, "can only add jobs to BOQ in draft status", "")
                ELSE /\ pc' = [pc EXCEPT ![t] = "add_insert"]
                     /\ UNCHANGED <<tables, nextBoqId, op, txw, local, result,
                                    pre, prev, budget>>

\* mutant: the error of the insert is not returned
AddInsertBOQJob_IgnoresError(t) ==
    /\ pc[t] = "add_insert"
    /\ \/ Fail(t, "failed to add job to BOQ", "fault")
       \/ /\ ~PairLocked(t, op[t].boq, op[t].job)
          /\ txw' = [txw EXCEPT ![t].job_ins =
                IF BoqJobUniqueViolation(t, op[t].boq, op[t].job) THEN @
                ELSE @ (+) SetToBag({
                        [boq_id |-> op[t].boq, job_id |-> op[t].job,
                         quantity |-> op[t].quantity,
                         labor_cost |-> op[t].labor_cost]})]
          /\ pc' = [pc EXCEPT ![t] = "add_materials"]
          /\ UNCHANGED <<tables, nextBoqId, op, local, result, pre, prev, budget>>

\* mutant: the insert runs on the connection pool, outside the transaction
AddInsertBOQJob_OutsideTx(t) ==
    /\ pc[t] = "add_insert"
    /\ \/ Fail(t, "failed to add job to BOQ", "fault")
       \/ /\ ~PairLocked(t, op[t].boq, op[t].job)
          /\ IF BoqJobUniqueViolation(t, op[t].boq, op[t].job)
             THEN Fail(t, "failed to add job to BOQ", "unique_violation")
             ELSE /\ boq_job' = boq_job (+) SetToBag({
                              [boq_id |-> op[t].boq, job_id |-> op[t].job,
                               quantity |-> op[t].quantity,
                               labor_cost |-> op[t].labor_cost]})
                  /\ pc' = [pc EXCEPT ![t] = "add_materials"]
                  /\ UNCHANGED <<boq, material_price_log, nextBoqId, op, txw, local,
                                 result, pre, prev, budget>>

AddInsertBOQJob(t) ==
    /\ pc[t] = "add_insert"
    /\ \/ Fail(t, "failed to add job to BOQ", "fault")
       \/ /\ ~PairLocked(t, op[t].boq, op[t].job)
          /\ IF BoqJobUniqueViolation(t, op[t].boq, op[t].job)
             THEN Fail(t, "failed to add job to BOQ", "unique_violation")
             ELSE /\ txw' = [txw EXCEPT ![t].job_ins = @ (+) SetToBag({
                              [boq_id |-> op[t].boq, job_id |-> op[t].job,
                               quantity |-> op[t].quantity,
                               labor_cost |-> op[t].labor_cost]})]
                  /\ pc' = [pc EXCEPT ![t] = "add_materials"]
                  /\ UNCHANGED <<tables, nextBoqId, op, local, result, pre, prev,
                                 budget>>

AddSelectMaterials(t) ==
    /\ pc[t] = "add_materials"
    /\ \/ Fail(t, "failed to get job materials", "fault")
       \/ /\ local' = [local EXCEPT ![t].materials = MaterialsOf(op[t].job)]
          /\ pc' = [pc EXCEPT ![t] = AfterMaterial(MaterialsOf(op[t].job))]
          /\ UNCHANGED <<tables, nextBoqId, op, txw, result, pre, prev, budget>>

AddCheckExists(t) ==
    /\ pc[t] = "add_exists"
    /\ \/ Fail(t, "failed to check material price log existence", "fault")
       \/ /\ IF PriceLogExists(t, op[t].boq, Head(local[t].materials).MaterialID,
                                op[t].job)
             THEN /\ local' = [local EXCEPT ![t].materials = Tail(@)]
                  /\ pc' = [pc EXCEPT ![t] = AfterMaterial(Tail(local[t].materials))]
             ELSE /\ pc' = [pc EXCEPT ![t] = "add_log"]
                  /\ UNCHANGED local
          /\ UNCHANGED <<tables, nextBoqId, op, txw, result, pre, prev, budget>>

AddInsertPriceLog(t) ==
    /\ pc[t] = "add_log"
    /\ \/ Fail(t, "failed to create material price log", "fault")
       \/ /\ txw' = [txw EXCEPT ![t].log_ins = @ (+) SetToBag({
                        [material_id |-> Head(local[t].materials).MaterialID,
                         boq_id |-> op[t].boq, job_id |-> op[t].job,
                         quantity |-> Head(local[t].materials).Quantity]})]
          /\ local' = [local EXCEPT ![t].materials = Tail(@)]
          /\ pc' = [pc EXCEPT ![t] = AfterMaterial(Tail(local[t].materials))]
          /\ UNCHANGED <<tables, nextBoqId, op, result, pre, prev, budget>>

\* mutant: success is returned without tx.Commit()
AddCommit_NoCommit(t) ==
    /\ pc[t] = "add_commit"
    /\ \/ Fail(t, "failed to commit transaction", "fault")
       \/ /\ TxRollback(t)
          /\ pc' = [pc EXCEPT ![t] = "done"]
          /\ result' = [result EXCEPT ![t] = Ok(NoResp)]
          /\ UNCHANGED <<nextBoqId, op, local, pre, prev, budget>>

AddCommit(t) ==
    /\ pc[t] = "add_commit"
    /\ \/ Fail(t, "failed to commit transaction", "fault")
       \/ /\ TxCommit(t)
          /\ pc' = [pc EXCEPT ![t] = "done"]
          /\ result' = [result EXCEPT ![t] = Ok(NoResp)]
          /\ UNCHANGED <<nextBoqId, op, local, pre, prev, budget>>

(* ---------------------------- DeleteBOQJob ---------------------------- *)

CallDeleteBOQJob(t, boqID, jobID) ==
    /\ Begin(t, [name |-> "delete", boq |-> boqID, job |-> jobID])
    /\ \/ Started(t, "del_status")
       \/ NotStarted(t)

\* mutant: sql.ErrNoRows is not told apart, the empty status is refused as non-draft
DeleteCheckStatus_NoRowsAsStatus(t) ==
    /\ pc[t] = "del_status"
    /\ LET rows == StatusRows(t, op[t].boq)
       IN  \/ Fail(t, "failed to get BOQ status", "fault")
           \/ /\ rows = {}
              /\ Fail(t, "can only delete jobs from BOQ in draft status", "")
           \/ \E r \in rows :
                IF r.status # "draft"
                THEN Fail(t, "can only delete jobs from BOQ in draft status", "")
                ELSE /\ pc' = [pc EXCEPT ![t] = "del_exec"]
                     /\ UNCHANGED <<tables, nextBoqId, op, txw, local, result,
                                    pre, prev, budget>>

DeleteCheckStatus(t) ==
    /\ pc[t] = "del_status"
    /\ LET rows == StatusRows(t, op[t].boq)
       IN  \/ Fail(t, "failed to get BOQ status", "fault")
           \/ /\ rows = {}
              /\ Fail(t, "boq not found", "")
           \/ \E r \in rows :
                IF r.status # "draft"
                THEN Fail(t, "can only delete jobs from BOQ in draft status", "")
                ELSE /\ pc' = [pc EXCEPT ![t] = "del_exec"]
                     /\ UNCHANGED <<tables, nextBoqId, op, txw, local, result,
                                    pre, prev, budget>>

\* mutant: the statement runs on the connection pool, outside the transaction
DeleteExec_OutsideTx(t) ==
    /\ pc[t] = "del_exec"
    /\ \/ Fail(t, "failed to delete job from BOQ", "fault")
       \/ /\ ~PairLocked(t, op[t].boq, op[t].job)
          /\ boq_job' = WithoutKeys(boq_job,
                            {[boq_id |-> op[t].boq, job_id |-> op[t].job]})
          /\ pc' = [pc EXCEPT ![t] = "del_commit"]
          /\ UNCHANGED <<boq, material_price_log, nextBoqId, op, txw, local,
                         result, pre, prev, budget>>

\* mutant: the statement has lost its AND job_id = $2
DeleteExec_WholeBoq(t) ==
    /\ pc[t] = "del_exec"
    /\ \/ Fail(t, "failed to delete job from BOQ", "fault")
       \/ /\ ~PairLocked(t, op[t].boq, op[t].job)
          /\ txw' = [txw EXCEPT ![t].job_del =
                @ \cup {[boq_id |-> r.boq_id, job_id |-> r.job_id] :
                          r \in {x \in BagToSet(VisBoqJob(t)) : x.boq_id = op[t].boq}}]
          /\ pc' = [pc EXCEPT ![t] = "del_commit"]
          /\ UNCHANGED <<tables, nextBoqId, op, local, result, pre, prev, budget>>

\* DELETE FROM boq_job WHERE boq_id = $1 AND job_id = $2: every row the
\* statement sees with that pair, none being no error
DeleteExec(t) ==
    /\ pc[t] = "del_exec"
    /\ \/ Fail(t, "failed to delete job from BOQ", "fault")
       \/ /\ ~PairLocked(t, op[t].boq, op[t].job)
          /\ txw' = [txw EXCEPT ![t].job_del =
                IF \E r \in BagToSet(VisBoqJob(t)) : SameKey(r, op[t].boq, op[t].job)
                THEN @ \cup {[boq_id |-> op[t].boq, job_id |-> op[t].job]}
                ELSE @]
          /\ pc' = [pc EXCEPT ![t] = "del_commit"]
          /\ UNCHANGED <<tables, nextBoqId, op, local, result, pre, prev, budget>>

\* mutant: the delete also removes the price-log rows of the pair
DeleteCommit_CleansLog(t) ==
    /\ pc[t] = "del_commit"
    /\ \/ Fail(t, "failed to commit transaction", "fault")
       \/ /\ boq' = boq
          /\ boq_job' = WithoutKeys(boq_job, txw[t].job_del)
          /\ material_price_log' = BagRestrict(material_price_log,
                {r \in DOMAIN material_price_log :
                    ~SameKey(r, op[t].boq, op[t].job)})
          /\ txw' = [txw EXCEPT ![t] = NoWrites]
          /\ pc' = [pc EXCEPT ![t] = "done"]
          /\ result' = [result EXCEPT ![t] = Ok(NoResp)]
          /\ UNCHANGED <<nextBoqId, op, local, pre, prev, budget>>

DeleteCommit(t) ==
    /\ pc[t] = "del_commit"
    /\ \/ Fail(t, "failed to commit transaction", "fault")
       \/ /\ TxCommit(t)
          /\ pc' = [pc EXCEPT ![t] = "done"]
          /\ result' = [result EXCEPT ![t] = Ok(NoResp)]
          /\ UNCHANGED <<nextBoqId, op, local, pre, prev, budget>>

(* --------------------- the rest of the application -------------------- *)

\* another transaction of the application moves a BOQ out of draft
StatusFlip ==
    \E r \in boq : \E s \in NonDraftStatuses :
        /\ r.status = "draft"
        /\ boq' = (boq \ {r}) \cup {[r EXCEPT !.status = s]}
        /\ UNCHANGED <<boq_job, material_price_log, nextBoqId, pc, op, txw, local,
                       result, pre, prev, budget>>

(* --------------------------- specifications --------------------------- *)

\* the boq ids a caller may pass: every id the store has generated, and 0,
\* an id it never generated
KnownBoqIds == 0..(nextBoqId - 1)

InitCommon ==
    /\ boq = InitBoq
    /\ boq_job = EmptyBag
    /\ material_price_log = EmptyBag
    /\ nextBoqId = FirstFreeId
    /\ pc = [t \in Procs |-> "idle"]
    /\ op = [t \in Procs |-> NoOp]
    /\ txw = [t \in Procs |-> NoWrites]
    /\ local = [t \in Procs |-> NoLocal]
    /\ result = [t \in Procs |-> NoResult]
    /\ pre = [t \in Procs |-> NoSnapshot]
    /\ prev = [t \in Procs |-> NoPrev]

Init == InitCommon /\ budget = MaxCalls

SeqInit == InitCommon /\ budget = MaxSeqCalls

Call(t) ==
    \/ \E p \in ProjectTable : CallGetBoqWithProject(t, p)
    \/ \E b \in KnownBoqIds, j \in JobIDs, q \in ReqQuantities, l \in ReqLaborCosts :
            CallAddBOQJob(t, b, j, q, l)
    \/ \E b \in KnownBoqIds, j \in JobIDs : CallDeleteBOQJob(t, b, j)

Step(t) ==
    \/ GetSelectBoq(t)
    \/ GetCreateBoq(t)
    \/ GetSelectJobs(t)
    \/ AddCheckStatus(t)
    \/ AddInsertBOQJob(t)
    \/ AddSelectMaterials(t)
    \/ AddCheckExists(t)
    \/ AddInsertPriceLog(t)
    \/ AddCommit(t)
    \/ DeleteCheckStatus(t)
    \/ DeleteExec(t)
    \/ DeleteCommit(t)

\* concurrent callers, and the status change at any moment
Next ==
    \/ \E t \in Procs : Call(t) /\ UNCHANGED <<pre, prev>>
    \/ \E t \in Procs : Step(t)
    \/ StatusFlip

Spec == Init /\ [][Next]_vars

\* one caller, one call at a time: no other transaction runs during a call
Quiescent == \A t \in Procs : pc[t] \in {"idle", "done"}

\* the history of a sequential run: the tables as the call begins, and the
\* call before it
Observe(t) ==
    /\ pre' = [pre EXCEPT ![t] = Snapshot(op'[t])]
    /\ prev' = [prev EXCEPT ![t] = LastCall(t)]

SeqNext ==
    \/ Call("t1") /\ Observe("t1")
    \/ Step("t1")
    \/ Quiescent /\ StatusFlip

SeqSpec == SeqInit /\ [][SeqNext]_vars

(* ------------------------------ claims -------------------------------- *)

Returned(t, name) == pc[t] = "done" /\ op[t].name = name

Succeeded(t) == result[t].err = ""

Faulted(t) == result[t].cause = "fault"

RowsOfBoq(B, b) == BagRestrict(B, {r \in DOMAIN B : r.boq_id = b})

RowsOfPair(B, b, j) == BagRestrict(B, {r \in DOMAIN B : SameKey(r, b, j)})

Linked(B, b, j) == \E r \in BagToSet(B) : SameKey(r, b, j)

\* one price-log row per job_material row of the job
ExpectedLog(b, j) ==
    SetToBag({[material_id |-> JobMaterialTable[i].material_id, boq_id |-> b,
               job_id |-> j, quantity |-> JobMaterialTable[i].quantity] :
              i \in {k \in 1..Len(JobMaterialTable) : JobMaterialTable[k].job_id = j}})

AllBoqIds == 0..(FirstFreeId + MaxCreate)

InvalidState(name) ==
    IF name = "add" THEN "can only add jobs to BOQ in draft status"
                    ELSE "can only delete jobs from BOQ in draft status"

\* C1: a successful GetBoqWithProject leaves exactly one committed BOQ for the
\* project, the one it returned (draft, null cost, no jobs when it created it),
\* and a GetBoqWithProject for the same project right after a successful one
\* returns the same boq_id.
C1_GetCreatesOneBoqAndRepeats ==
    \A t \in Procs :
        Returned(t, "get") /\ Succeeded(t) =>
            /\ {r.boq_id : r \in {x \in boq : x.project_id = op[t].project}}
                    = {result[t].resp.ID}
            /\ local[t].created =>
                    /\ result[t].resp.Status = "draft"
                    /\ result[t].resp.Jobs = EmptyBag
                    /\ \A r \in boq : r.boq_id = result[t].resp.ID
                                          => r.selling_general_cost = NULL
            /\ (prev[t].op.name = "get" /\ prev[t].op.project = op[t].project)
                    => result[t].resp.ID = prev[t].ID

\* C2: the committed boq_job rows of a BOQ change only in a step taken while
\* the committed status of that BOQ is draft.
C2_JobSetChangesOnlyInDraft ==
    [][\A b \in AllBoqIds :
          RowsOfBoq(boq_job', b) # RowsOfBoq(boq_job, b) => StatusOf(b) = "draft"]_vars

\* C3: without concurrent writers, AddBOQJob and DeleteBOQJob on an existing
\* BOQ whose status is not "draft" leave boq_job and material_price_log as
\* they were, and return the invalid-state error (unless the store itself
\* failed the status read or the begin).
C3_NonDraftRejected ==
    \A t \in Procs :
        (Returned(t, "add") \/ Returned(t, "delete"))
        /\ pre[t].status \notin {"draft", "none"} =>
            /\ boq_job = pre[t].boq_job
            /\ material_price_log = pre[t].log
            /\ ~Succeeded(t)
            /\ ~Faulted(t) => result[t].err = InvalidState(op[t].name)

\* a delete of a linked job is refused on a BOQ that has left draft
C3_Witness ==
    \E t \in Procs :
        /\ Returned(t, "delete")
        /\ pre[t].status = "confirmed"
        /\ Linked(boq_job, op[t].boq, op[t].job)
        /\ result[t].err = InvalidState("delete")

\* C4: without concurrent writers and store failures, AddBOQJob of a job not
\* yet linked to a draft BOQ returns success, and a GetBoqWithProject that
\* follows it and returns that BOQ lists the job exactly once.
C4_AddedJobListedOnce ==
    \A t \in Procs :
        /\ (Returned(t, "add") /\ pre[t].status = "draft" /\ ~Faulted(t)
             /\ ~Linked(pre[t].boq_job, op[t].boq, op[t].job)) => Succeeded(t)
        /\ (Returned(t, "get") /\ Succeeded(t) /\ prev[t].op.name = "add"
             /\ prev[t].op.boq = result[t].resp.ID) =>
                BagCardinality(BagRestrict(result[t].resp.Jobs,
                    {x \in DOMAIN result[t].resp.Jobs : x.JobID = prev[t].op.job})) = 1

C4_Witness ==
    \E t \in Procs :
        /\ Returned(t, "get") /\ Succeeded(t)
        /\ prev[t].op.name = "add"
        /\ prev[t].op.boq = result[t].resp.ID
        /\ BagCardinality(result[t].resp.Jobs) = 2

\* C5: the committed boq_job never holds two rows with the same
\* (boq_id, job_id), and the insert of AddBOQJob for a pair that is committed
\* ends the call with the "failed to add job to BOQ" error, the tables unchanged.
C5_Unique ==
    \A b \in AllBoqIds, j \in JobIDs : BagCardinality(RowsOfPair(boq_job, b, j)) <= 1

C5_DuplicateAddFails ==
    \A t \in Procs :
        (pc[t] = "add_insert" /\ pc'[t] # "add_insert"
         /\ Linked(boq_job, op[t].boq, op[t].job)) =>
            /\ pc'[t] = "done"
            /\ result'[t].err = "failed to add job to BOQ"
            /\ UNCHANGED tables

C6_PriceLogIdempotent ==
    /\ \A b \in AllBoqIds, j \in JobIDs :
          RowsOfPair(material_price_log, b, j) \in {EmptyBag, ExpectedLog(b, j)}
    /\ \A t \in Procs :
          Returned(t, "add") /\ Succeeded(t) =>
              RowsOfPair(material_price_log, op[t].boq, op[t].job)
                  = ExpectedLog(op[t].boq, op[t].job)

\* a job with two materials added again after its delete: nothing new logged
C6_Witness ==
    \E t \in Procs :
        /\ Returned(t, "add") /\ Succeeded(t)
        /\ ~Linked(pre[t].boq_job, op[t].boq, op[t].job)
        /\ BagCardinality(RowsOfPair(pre[t].log, op[t].boq, op[t].job)) = 2
        /\ material_price_log = pre[t].log

\* C7: for every committed boq_job row (B, J) and every job_material row
\* (J, M, q) there is a committed material_price_log row for (M, B, J).
C7_JobRowsHavePriceLogs ==
    \A r \in BagToSet(boq_job) :
        \A i \in 1..Len(JobMaterialTable) :
            JobMaterialTable[i].job_id = r.job_id =>
                \E l \in BagToSet(material_price_log) :
                    /\ l.material_id = JobMaterialTable[i].material_id
                    /\ l.boq_id = r.boq_id
                    /\ l.job_id = r.job_id

\* two callers have each committed a job, one of them the job of two materials
C7_Witness ==
    /\ BagCardinality(boq_job) = 2
    /\ \E r \in BagToSet(boq_job) : r.job_id = "j1"
    /\ BagCardinality(material_price_log) >= 3

\* C8: without concurrent writers and store failures, DeleteBOQJob on a draft
\* BOQ returns success and boq_job is what it was less the rows of the pair;
\* with a store failure it is what it was.
C8_DeleteRemovesOnlyThePair ==
    \A t \in Procs :
        Returned(t, "delete") /\ pre[t].status = "draft" =>
            IF Faulted(t)
            THEN boq_job = pre[t].boq_job
            ELSE /\ Succeeded(t)
                 /\ boq_job = WithoutKeys(pre[t].boq_job,
                                [boq_id : {op[t].boq}, job_id : {op[t].job}])
                 /\ BagCardinality(pre[t].boq_job) - BagCardinality(boq_job)
                        = IF Linked(pre[t].boq_job, op[t].boq, op[t].job) THEN 1 ELSE 0

\* the pair is deleted beside another job of the BOQ and the job in another BOQ
C8_Witness ==
    \E t \in Procs :
        /\ Returned(t, "delete") /\ Succeeded(t)
        /\ Linked(pre[t].boq_job, op[t].boq, op[t].job)
        /\ \E r \in BagToSet(boq_job) : r.boq_id = op[t].boq /\ r.job_id # op[t].job
        /\ \E r \in BagToSet(boq_job) : r.boq_id # op[t].boq /\ r.job_id = op[t].job

\* C9: an AddBOQJob that returns an error, at whichever step, leaves the
\* committed boq_job and material_price_log as they were when it began.
C9_AddAtomic ==
    \A t \in Procs :
        Returned(t, "add") /\ ~Succeeded(t) =>
            /\ boq_job = pre[t].boq_job
            /\ material_price_log = pre[t].log

\* the insert of the second price-log row of a job failed
C9_Witness ==
    \E t \in Procs :
        /\ Returned(t, "add")
        /\ result[t].err = "failed to create material price log"
        /\ Len(local[t].materials) = 1
        /\ Len(MaterialsOf(op[t].job)) = 2
        /\ pre[t].log = EmptyBag

\* C10: the committed boq holds at most one row per project_id.
C10_OneBoqPerProject ==
    \A p \in ProjectTable : Cardinality({r \in boq : r.project_id = p}) <= 1

\* two concurrent first reads of a project each found no BOQ and created one
C10_Witness ==
    /\ \A t \in Procs : Returned(t, "get") /\ Succeeded(t) /\ local[t].created
    /\ \A t, u \in Procs : op[t].project = op[u].project
    /\ \E t, u \in Procs : result[t].resp.ID # result[u].resp.ID

\* C11: a caller that is not inside a call has no open transaction: every
\* call that began one has ended it, by commit or rollback, when it returns.
C11_NoTransactionLeaks ==
    \A t \in Procs : pc[t] \in {"idle", "done"} => txw[t] = NoWrites

\* an AddBOQJob returned an error after its transaction had written, while
\* the other caller's transaction is still open
C11_Witness ==
    \E t, u \in Procs :
        /\ Returned(t, "add")
        /\ result[t].err = "failed to get job materials"
        /\ ~txw[t].open
        /\ txw[u].open

\* C12: an AddBOQJob or DeleteBOQJob in which a store call failed (the
\* context was cancelled or timed out, the connection was lost) returns an
\* error, its transaction is ended, and boq_job and material_price_log are as
\* they were when the call began.
C12_CancelledCallCommitsNothing ==
    \A t \in Procs :
        (Returned(t, "add") \/ Returned(t, "delete")) /\ Faulted(t) =>
            /\ ~Succeeded(t)
            /\ txw[t] = NoWrites
            /\ boq_job = pre[t].boq_job
            /\ material_price_log = pre[t].log

\* the delete of a linked pair was cancelled at its commit: the row is there
C12_Witness ==
    \E t \in Procs :
        /\ Returned(t, "delete")
        /\ Faulted(t)
        /\ result[t].err = "failed to commit transaction"
        /\ pre[t].status = "draft"
        /\ Linked(boq_job, op[t].boq, op[t].job)

\* C13: AddBOQJob and DeleteBOQJob for a boq_id that has no boq row return
\* an error, the "boq not found" one unless the store failed, and leave
\* boq_job and material_price_log as they were.
C13_UnknownBoqNotFound ==
    \A t \in Procs :
        (Returned(t, "add") \/ Returned(t, "delete")) /\ pre[t].status = "none" =>
            /\ ~Succeeded(t)
            /\ ~Faulted(t) => /\ result[t].err = "boq not found"
                               /\ result[t].err # InvalidState(op[t].name)
            /\ boq_job = pre[t].boq_job
            /\ material_price_log = pre[t].log

\* a delete for an id the store never generated, with rows in boq_job
C13_Witness ==
    \E t \in Procs :
        /\ Returned(t, "delete")
        /\ op[t].boq = 0
        /\ result[t].err = "boq not found"
        /\ boq_job # EmptyBag

\* C14: DeleteBOQJob leaves material_price_log as it was when the call began.
C14_DeleteKeepsPriceLog ==
    \A t \in Procs : Returned(t, "delete") => material_price_log = pre[t].log

\* after a successful delete the price-log rows of the pair are still there
\* and the pair is no longer in boq_job
C14_Witness ==
    \E t \in Procs :
        /\ Returned(t, "delete") /\ Succeeded(t)
        /\ Linked(pre[t].boq_job, op[t].boq, op[t].job)
        /\ ~Linked(boq_job, op[t].boq, op[t].job)
        /\ RowsOfPair(material_price_log, op[t].boq, op[t].job)
                = ExpectedLog(op[t].boq, op[t].job)
        /\ BagCardinality(ExpectedLog(op[t].boq, op[t].job)) = 2

\* what the view `v` must be for the boq row `r` and the committed boq_job
ViewOf(v, r) ==
    /\ v.ID = r.boq_id
    /\ v.ProjectID = r.project_id
    /\ v.Status = r.status
    /\ v.SellingGeneralCost =
          IF r.selling_general_cost = NULL THEN 0 ELSE r.selling_general_cost[1]
    /\ {x.JobID : x \in DOMAIN v.Jobs}
          = {l.job_id : l \in {y \in BagToSet(boq_job) : y.boq_id = r.boq_id}}
    /\ \A x \in DOMAIN v.Jobs :
          /\ v.Jobs[x] = 1
          /\ \E j \in JobTable :
                /\ j.job_id = x.JobID /\ j.name = x.Name /\ j.unit = x.Unit
                /\ x.Description =
                      IF j.description = NULL THEN "" ELSE j.description[1]

\* C15: without concurrent writers, the view a successful GetBoqWithProject
\* returns carries the boq_id, project_id and status of the boq row it read
\* or created for the project asked, the cost 0 for a null cost and the
\* stored cost otherwise, and exactly the jobs that have a boq_job row for
\* that boq_id, each once, the description "" for a null description.
C15_ViewMatchesStore ==
    [][\A t \in Procs :
          (pc[t] = "get_jobs" /\ pc'[t] = "done" /\ result'[t].err = "") =>
              /\ result'[t].resp.ProjectID = op[t].project
              /\ \E r \in (IF local[t].created THEN txw[t].boq ELSE boq) :
                    ViewOf(result'[t].resp, r)]_vars

\* the view of a BOQ with a stored cost and a job whose description is null
C15_Witness ==
    \E t \in Procs :
        /\ Returned(t, "get") /\ Succeeded(t)
        /\ result[t].resp.SellingGeneralCost = 5
        /\ \E x \in DOMAIN result[t].resp.Jobs : x.Description = ""
        /\ \E r \in BagToSet(boq_job) : r.boq_id # result[t].resp.ID

C17_ReturnedBoqExists ==
    \A t \in Procs :
        /\ (Returned(t, "get") /\ Succeeded(t)) =>
                \E r \in boq : r.boq_id = result[t].resp.ID
        /\ ((Returned(t, "add") \/ Returned(t, "delete"))
             /\ prev[t].op.name = "get" /\ prev[t].ID = op[t].boq) =>
                result[t].err # "boq not found"

====
